---- MODULE Spec2Model ----
(***************************************************************************)
(* Model of two programs of the hammer repository:                         *)
(*                                                                         *)
(*  - describe_ecs_privileged_access_issues.lambda_handler, the scan of    *)
(*    one region of one account, which chains itself through SNS until the *)
(*    list of regions of its payload is empty (specification Spec);        *)
(*  - CleanIAMUserStaleKeys.clean_iam_access_keys, the remediation pass    *)
(*    over the stale access key issues of one account (specification       *)
(*    SpecClean).                                                          *)
(*                                                                         *)
(* The two programs work on two different DynamoDB tables                  *)
(* (config.ecs_privileged_access.ddb_table_name and                        *)
(* config.iamUserKeysRotation.ddb_table_name), so each specification       *)
(* leaves the other program's variables alone.                             *)
(*                                                                         *)
(* library.ddb_issues, library.aws.* and library.config are not part of    *)
(* the sources at hand: IssueOperations.*, in_whitelist and Sns.publish    *)
(* are modelled from the specification's sections 3, 4 and 6.              *)
(***************************************************************************)
EXTENDS Integers, Sequences, FiniteSets, TLC

\* ------------------------------------------------------------------ bounds

\* The longest regions list of a trigger payload.
MaxRegions == 2

\* The lambda invocations that may run at the same time.
MaxInvocations == 2

\* The clock ticks every twelve hours: the ticks of a day.
TicksPerDay == 2

\* config.iamUserKeysRotation.remediation_retention_period, in days.
RetentionPeriod == 1

\* The last tick of the clock: the passes run until the day after the
\* retention period of an issue updated at tick 0 is over.
MaxTick == (RetentionPeriod + 1) * TicksPerDay

\* The regions an account may be scanned in, and the task definition
\* names (issue ids) the scanner may report.
Regions == {"eu", "us"}
TaskNames == {"t1", "t2"}

\* --------------------------------------------------------------- the store

\* IssueStatus of library.ddb_issues, as the specification's section 3 lists it.
IssueStatus == {"Open", "Whitelisted", "Notified", "Remediated", "Resolved"}

\* The record of a key the table holds no item for.
NoIssue == [status |-> "None", region |-> "None"]

\* ECSPrivilegedAccessIssue: the status and, of issue_details, the region
\* (arn, tags and container_name are functions of the task definition).
ECSPrivilegedAccessIssue(status, region) == [status |-> status, region |-> region]

\* Every item the ECS table may hold under one issue id.
ECSItems == {NoIssue} \cup {ECSPrivilegedAccessIssue(s, r) : s \in IssueStatus, r \in Regions}

VARIABLES
    ddb_table,      \* the ECS issues table: issue id -> item
    whitelist,      \* the task definition names in_whitelist answers true for
    trigger,        \* the payload the chain was started with
    sns,            \* the messages published and not yet delivered
    inv,            \* slot -> the lambda invocation running in it
    scanned,        \* region -> how often checker.check() ran for it
    published,      \* how many continuation messages were published
    failed,         \* whether any invocation of the chain failed somewhere
    last,           \* what the last reconciliation did
    invocations,    \* how many invocations of the handler were started
    env,            \* what a chain with duplicate deliveries is run against
    iam_table,      \* the IAM key rotation issues table: key id -> item
    config,         \* the remediation pass's configuration
    now,            \* the clock, in ticks
    pass,           \* the remediation pass in progress
    ev,             \* what the pass did for the issue it processed last
    lastWarn        \* key id -> the last warning dispatched for it

scanVars == <<ddb_table, whitelist, trigger, sns, inv, scanned, published, failed, last,
              invocations, env>>
cleanVars == <<iam_table, config, now, pass, ev, lastWarn>>
vars == <<scanVars, cleanVars>>

\* ------------------------------------------------- the scanner's helpers

Last(s) == s[Len(s)]
Front(s) == SubSeq(s, 1, Len(s) - 1)
Range(s) == {s[i] : i \in 1..Len(s)}

\* The payloads a trigger message may carry: a regions list (account_id,
\* account_name and sns_arn are the same in every message of a chain), or a
\* message json.loads or one of the payload[...] lookups fails on.
RegionLists == UNION {[1..n -> Regions] : n \in 0..MaxRegions}
Payload(regions) == [regions |-> regions, parsable |-> TRUE]
Unparsable == [regions |-> <<>>, parsable |-> FALSE]
Payloads == {Payload(rs) : rs \in RegionLists} \cup {Unparsable}

Slots == 1..MaxInvocations
Idle == [pc |-> "idle", region |-> "None", regions |-> <<>>, open_issues |-> {}]

\* Operations.get_account_open_issues: the issue ids of the account's items
\* that are not closed (Open, Whitelisted and Notified: section 4.2).
OpenStatuses == {"Open", "Whitelisted", "Notified"}
get_account_open_issues(table) == {n \in DOMAIN table : table[n].status \in OpenStatuses}

\* Operations.update: upsert of the item under (account_id, issue_id).
update(table, name, issue) == [table EXCEPT ![name] = issue]

\* Operations.set_status_resolved: the item's status becomes Resolved.
set_status_resolved(table, name) == [table EXCEPT ![name].status = "Resolved"]

\* config.ecs_privileged_access.in_whitelist(account_id, name).
in_whitelist(wl, name) == name \in wl

\* payload['regions'].pop(): the last region, and the list without it
\* (first a faulty variant that reads the last region and leaves it in the
\* list, as payload['regions'][-1] would).
PopRegionKeeps(regions) == [region |-> Last(regions), rest |-> regions]
PopRegion(regions) == [region |-> Last(regions), rest |-> Front(regions)]

\* Whether the try block of lines 17-26 raises: json.loads or a lookup
\* fails, or pop() is called on an empty list.
ParseFails(m) == ~m.parsable \/ m.regions = <<>>

\* Line 47: the open issues of the account, filtered by the current region.
OpenIssuesOfRegion(table, region) ==
    {n \in get_account_open_issues(table) : table[n].region = region}

\* Lines 60-63: the status of the issue of a privileged task definition
\* (first a faulty variant that does not look at the whitelist).
IssueStatusAlwaysOpen(wl, name) == "Open"
IssueStatusFor(wl, name) ==
    IF in_whitelist(wl, name) THEN "Whitelisted" ELSE "Open"

\* Lines 52-68 for the privileged task definitions `names`: each one's issue
\* is built with the region of the scan and upserted.
RECURSIVE UpdateDetected(_, _, _, _)
UpdateDetected(table, wl, region, names) ==
    IF names = {} THEN table
    ELSE LET n == CHOOSE x \in names : TRUE
         IN  UpdateDetected(
                 update(table, n, ECSPrivilegedAccessIssue(IssueStatusFor(wl, n), region)),
                 wl, region, names \ {n})

\* Lines 72-73 for the issue ids `names`.
RECURSIVE ResolveAll(_, _)
ResolveAll(table, names) ==
    IF names = {} THEN table
    ELSE LET n == CHOOSE x \in names : TRUE
         IN  ResolveAll(set_status_resolved(table, n), names \ {n})

\* Line 68: the issue ids left in open_issues after the detected ones are
\* popped (first two faulty variants: nothing is popped; the others are popped).
LeftOpenKeepAll(open_issues, findings) == open_issues
LeftOpenInverted(open_issues, findings) == open_issues \cap findings
LeftOpen(open_issues, findings) == open_issues \ findings

\* Line 79: whether a continuation message is published (first a faulty
\* variant that stops one region early).
ShouldPublishOffByOne(regions) == Len(regions) > 1
ShouldPublish(regions) == Len(regions) > 0

\* ----------------------------------------------------- the scanner's steps

\* The remediation pass does not run.
IdleClean ==
    /\ iam_table = <<>>
    /\ config = <<>>
    /\ now = 0
    /\ pass = <<>>
    /\ ev = <<>>
    /\ lastWarn = <<>>

\* What the last run of lines 50-73 did: how it ended, the region and the
\* privileged task definitions of the scan, the table it started from, and
\* whether the run before it was a complete scan of the same region with the
\* same findings.
ScanRecord(kind, region, findings, before, repeat) ==
    [kind |-> kind, region |-> region, findings |-> findings, before |-> before, repeat |-> repeat]
NoScan == ScanRecord("none", "None", {}, [n \in TaskNames |-> NoIssue], FALSE)

\* What the deliveries of a chain are run against: the privileged task
\* definitions check() finds in each region, the table the chain started
\* from and whether a message of the chain was delivered a second time. A
\* chain whose messages are delivered once each keeps none of it.
Environment(findings, initial, duplicated) ==
    [findings |-> findings, initial |-> initial, duplicated |-> duplicated]
NoEnvironment == Environment(<<>>, <<>>, FALSE)

Init ==
    /\ ddb_table \in [TaskNames -> ECSItems]
    /\ whitelist \in SUBSET TaskNames
    /\ trigger \in Payloads
    /\ sns = {trigger}
    /\ inv = [i \in Slots |-> Idle]
    /\ scanned = [r \in Regions |-> 0]
    /\ published = 0
    /\ failed = FALSE
    /\ last = NoScan
    /\ invocations = 0
    /\ env = NoEnvironment
    /\ IdleClean

\* The slot a delivered message is handled in: the first idle one.
FreeSlot(i) == inv[i].pc = "idle" /\ \A j \in 1..(i - 1) : inv[j].pc # "idle"

\* Lines 17-26: the message does not parse; the invocation returns.
ReceiveUnparsable(i, m) ==
    /\ FreeSlot(i)
    /\ m \in sns
    /\ ParseFails(m)
    /\ sns' = sns \ {m}
    /\ failed' = TRUE
    /\ invocations' = invocations + 1
    /\ UNCHANGED <<ddb_table, whitelist, trigger, inv, scanned, published, last, env, cleanVars>>

\* A faulty variant of the return of lines 37-39: the invocation goes on to
\* lines 78-85 and publishes the regions that are left.
ReceiveNoSessionContinues(i, m) ==
    /\ FreeSlot(i)
    /\ m \in sns
    /\ ~ParseFails(m)
    /\ sns' = (sns \ {m}) \cup
                  (IF ShouldPublish(PopRegion(m.regions).rest)
                      THEN {Payload(PopRegion(m.regions).rest)} ELSE {})
    /\ failed' = TRUE
    /\ invocations' = invocations + 1
    /\ UNCHANGED <<ddb_table, whitelist, trigger, inv, scanned, published, last, env, cleanVars>>

\* Lines 17-39: the message parses and the account's session cannot be had
\* (account.session is None, or Config() or Account() raises); the
\* invocation returns.
ReceiveNoSession(i, m) ==
    /\ FreeSlot(i)
    /\ m \in sns
    /\ ~ParseFails(m)
    /\ sns' = sns \ {m}
    /\ failed' = TRUE
    /\ invocations' = invocations + 1
    /\ UNCHANGED <<ddb_table, whitelist, trigger, inv, scanned, published, last, env, cleanVars>>

\* A faulty variant of lines 17-48 that publishes the regions that are left
\* as soon as the region is popped, before the region is scanned.
ReceivePublishesFirst(i, m) ==
    /\ FreeSlot(i)
    /\ m \in sns
    /\ ~ParseFails(m)
    /\ LET p == PopRegion(m.regions)
       IN  /\ sns' = (sns \ {m}) \cup (IF ShouldPublish(p.rest) THEN {Payload(p.rest)} ELSE {})
           /\ inv' = [inv EXCEPT ![i] = [pc |-> "check", region |-> p.region, regions |-> p.rest,
                                           open_issues |-> OpenIssuesOfRegion(ddb_table, p.region)]]
    /\ invocations' = invocations + 1
    /\ UNCHANGED <<ddb_table, whitelist, trigger, scanned, published, failed, last, env, cleanVars>>

\* Lines 17-48: the message parses, the last region is popped, the session
\* is there and the open issues of the region are read.
Receive(i, m) ==
    /\ FreeSlot(i)
    /\ m \in sns
    /\ ~ParseFails(m)
    /\ sns' = sns \ {m}
    /\ LET p == PopRegion(m.regions)
       IN  inv' = [inv EXCEPT ![i] = [pc |-> "check", region |-> p.region, regions |-> p.rest,
                                       open_issues |-> OpenIssuesOfRegion(ddb_table, p.region)]]
    /\ invocations' = invocations + 1
    /\ UNCHANGED <<ddb_table, whitelist, trigger, scanned, published, failed, last, env, cleanVars>>

\* Lines 50-73, without an exception: check() returns true with the
\* privileged task definitions `findings`; each one's issue is upserted and
\* the open issues of the region that are not among them are resolved.
Reconcile(i, findings) ==
    /\ inv[i].pc = "check"
    /\ LET region == inv[i].region
           left == LeftOpen(inv[i].open_issues, findings)
       IN  /\ ddb_table' = ResolveAll(UpdateDetected(ddb_table, whitelist, region, findings), left)
           /\ scanned' = [scanned EXCEPT ![region] = @ + 1]
           /\ last' = ScanRecord("scan", region, findings, ddb_table,
                                 last.kind = "scan" /\ last.region = region /\ last.findings = findings)
    /\ inv' = [inv EXCEPT ![i].pc = "publish"]
    /\ UNCHANGED <<whitelist, trigger, sns, published, failed, invocations, env, cleanVars>>

\* Lines 50-73, check() returns false: task_definitions is not read, and
\* every issue of open_issues is resolved.
CheckFalse(i) ==
    /\ inv[i].pc = "check"
    /\ LET region == inv[i].region
       IN  /\ ddb_table' = ResolveAll(ddb_table, inv[i].open_issues)
           /\ scanned' = [scanned EXCEPT ![region] = @ + 1]
           /\ last' = ScanRecord("check_false", region, {}, ddb_table, FALSE)
    /\ inv' = [inv EXCEPT ![i].pc = "publish"]
    /\ failed' = TRUE
    /\ UNCHANGED <<whitelist, trigger, sns, published, invocations, env, cleanVars>>

\* Lines 50-76, an exception: check() raises, or an update or a
\* set_status_resolved does, after the issues of `written` were upserted and
\* those of `resolved` resolved (the resolving starts once every finding is
\* written). The invocation returns at line 76.
ScanRaises(i, findings, written, resolved) ==
    /\ inv[i].pc = "check"
    /\ written \subseteq findings
    /\ resolved \subseteq LeftOpen(inv[i].open_issues, findings)
    /\ written # findings => resolved = {}
    /\ ~(written = findings /\ resolved = LeftOpen(inv[i].open_issues, findings))
    /\ LET region == inv[i].region
       IN  /\ ddb_table' = ResolveAll(UpdateDetected(ddb_table, whitelist, region, written), resolved)
           /\ scanned' = [scanned EXCEPT ![region] = @ + 1]
           /\ last' = ScanRecord("error", region, findings, ddb_table, FALSE)
    /\ inv' = [inv EXCEPT ![i] = Idle]
    /\ failed' = TRUE
    /\ UNCHANGED <<whitelist, trigger, sns, published, invocations, env, cleanVars>>

\* Lines 78-85, Sns.publish returns: the payload, without the popped region,
\* is on its way to the next invocation.
Publish(i) ==
    /\ inv[i].pc = "publish"
    /\ ShouldPublish(inv[i].regions)
    /\ sns' = sns \cup {Payload(inv[i].regions)}
    /\ published' = published + 1
    /\ inv' = [inv EXCEPT ![i] = Idle]
    /\ UNCHANGED <<ddb_table, whitelist, trigger, scanned, failed, last, invocations, env, cleanVars>>

\* A faulty variant of the except of lines 82-83: the publish is tried
\* again and goes through.
PublishRaisesRetries(i) ==
    /\ inv[i].pc = "publish"
    /\ ShouldPublish(inv[i].regions)
    /\ sns' = sns \cup {Payload(inv[i].regions)}
    /\ published' = published + 1
    /\ failed' = TRUE
    /\ inv' = [inv EXCEPT ![i] = Idle]
    /\ UNCHANGED <<ddb_table, whitelist, trigger, scanned, last, invocations, env, cleanVars>>

\* Lines 78-85, Sns.publish raises: logged, and the invocation ends.
PublishRaises(i) ==
    /\ inv[i].pc = "publish"
    /\ ShouldPublish(inv[i].regions)
    /\ failed' = TRUE
    /\ inv' = [inv EXCEPT ![i] = Idle]
    /\ UNCHANGED <<ddb_table, whitelist, trigger, sns, scanned, published, last, invocations, env, cleanVars>>

\* Lines 78-85, no region is left: nothing is published.
Finish(i) ==
    /\ inv[i].pc = "publish"
    /\ ~ShouldPublish(inv[i].regions)
    /\ inv' = [inv EXCEPT ![i] = Idle]
    /\ UNCHANGED <<ddb_table, whitelist, trigger, sns, scanned, published, failed, last, invocations, env, cleanVars>>

Next ==
    \E i \in Slots :
        \/ \E m \in sns : ReceiveUnparsable(i, m)
        \/ \E m \in sns : ReceiveNoSession(i, m)
        \/ \E m \in sns : Receive(i, m)
        \/ \E findings \in SUBSET TaskNames : Reconcile(i, findings)
        \/ CheckFalse(i)
        \/ \E findings \in SUBSET TaskNames :
               \E written \in SUBSET findings :
                   \E resolved \in SUBSET TaskNames : ScanRaises(i, findings, written, resolved)
        \/ Publish(i)
        \/ PublishRaises(i)
        \/ Finish(i)

Spec == Init /\ [][Next]_vars

\* Lines 17-48 for a message that is delivered once more later on: it stays
\* in flight. One message of a chain is delivered twice.
ReceiveDuplicate(i, m) ==
    /\ FreeSlot(i)
    /\ m \in sns
    /\ ~ParseFails(m)
    /\ ~env.duplicated
    /\ LET p == PopRegion(m.regions)
       IN  inv' = [inv EXCEPT ![i] = [pc |-> "check", region |-> p.region, regions |-> p.rest,
                                       open_issues |-> OpenIssuesOfRegion(ddb_table, p.region)]]
    /\ invocations' = invocations + 1
    /\ env' = [env EXCEPT !.duplicated = TRUE]
    /\ UNCHANGED <<ddb_table, whitelist, trigger, sns, scanned, published, failed, last, cleanVars>>

\* A chain under at-least-once delivery: the trigger names at least one
\* region, the table holds open issues only, and check() finds the same
\* privileged task definitions in a region every time it runs.
InitDup ==
    /\ ddb_table \in [TaskNames -> {NoIssue} \cup {ECSPrivilegedAccessIssue("Open", r) : r \in Regions}]
    /\ whitelist \in SUBSET TaskNames
    /\ trigger \in {Payload(rs) : rs \in RegionLists \ {<<>>}}
    /\ sns = {trigger}
    /\ inv = [i \in Slots |-> Idle]
    /\ scanned = [r \in Regions |-> 0]
    /\ published = 0
    /\ failed = FALSE
    /\ last = NoScan
    /\ invocations = 0
    /\ env \in {Environment(f, ddb_table, FALSE) : f \in [Regions -> SUBSET TaskNames]}
    /\ IdleClean

NextDup ==
    \E i \in Slots :
        \/ \E m \in sns : Receive(i, m)
        \/ \E m \in sns : ReceiveDuplicate(i, m)
        \/ inv[i].pc = "check" /\ Reconcile(i, env.findings[inv[i].region])
        \/ Publish(i)
        \/ PublishRaises(i)
        \/ Finish(i)

SpecDup == InitDup /\ [][NextDup]_vars

\* The chain of a table of open issues when every delivered message is
\* handled and every invocation that was started runs to its end.
InitFair ==
    /\ Init
    /\ \A n \in TaskNames : ddb_table[n].status \in {"None", "Open"}

SpecFair == InitFair /\ [][Next]_vars /\ WF_vars(Next)

\* ------------------------------------------- the remediation pass's helpers

\* The access key ids (issue ids) of the account and each one's user.
Keys == {"k1", "k2"}
username(key) == IF key = "k1" THEN "u1" ELSE "u2"

\* A timestamp that is None, and one that is set.
NoDate == <<>>
Date(t) == <<t>>

\* IAMKeyRotationIssue: the status and the timestamps (reported and
\* remediated only as set or None).
IAMKeyRotationIssue(status, updated, reported, notified, remediated) ==
    [status |-> status, updated |-> updated, reported |-> reported,
     slack_notified_date |-> notified, remediated |-> remediated]

NoKeyIssue == IAMKeyRotationIssue("None", 0, FALSE, NoDate, FALSE)

\* The items the IAM table may hold under a key id when the passes start:
\* an issue detected at tick 0, not reported yet, or reported and never
\* notified, notified at tick 0 or a day before, or remediated already.
IAMItems ==
    {NoKeyIssue,
     IAMKeyRotationIssue("Open", 0, FALSE, NoDate, FALSE),
     IAMKeyRotationIssue("Open", 0, TRUE, NoDate, FALSE),
     IAMKeyRotationIssue("Open", 0, TRUE, Date(0), FALSE),
     IAMKeyRotationIssue("Notified", 0, TRUE, Date(0 - TicksPerDay), FALSE),
     IAMKeyRotationIssue("Open", 0, TRUE, Date(0), TRUE)}

\* timedelta.days: the whole days of a difference of two times.
Days(ticks) == ticks \div TicksPerDay

\* Operations.set_status_notified: the status becomes Notified and the
\* notification timestamp the time of the pass.
set_status_notified(table, key, t) ==
    [table EXCEPT ![key].status = "Notified", ![key].slack_notified_date = Date(t)]

\* Operations.set_status_remediated: the status becomes Remediated and the
\* remediated timestamp is set.
set_status_remediated(table, key) ==
    [table EXCEPT ![key].status = "Remediated", ![key].remediated = TRUE]

\* Lines 44-47: the user or the key is in the whitelist (first a faulty
\* variant that looks the key up only).
InWhitelistKeyOnly(cfg, key) == in_whitelist(cfg.whitelist, key)
InWhitelist(cfg, key) ==
    in_whitelist(cfg.whitelist, username(key)) \/ in_whitelist(cfg.whitelist, key)

\* Lines 59-60: the days since the issue was updated.
no_of_days_issue_created(issue, t) == Days(t - issue.updated)

\* Line 62: the days left before the remediation.
issue_remediation_days(issue, t) == RetentionPeriod - no_of_days_issue_created(issue, t)

\* Line 66: a day or more has passed since the last notification (first a
\* faulty variant without the guard).
NotifiedAnyTime(issue, t) == TRUE
NotifiedADayAgo(issue, t) == Days(t - issue.slack_notified_date[1]) > 0

\* Lines 65-66: a warning is due.
WarningDue(cfg, issue, t) ==
    /\ issue_remediation_days(issue, t) \in cfg.remediation_warning_days
    /\ NotifiedADayAgo(issue, t)

\* Line 82: the retention period is over (first two faulty variants, a day
\* early and a day late).
RemediationDueADayEarly(issue, t) == no_of_days_issue_created(issue, t) >= RetentionPeriod - 1
RemediationDueADayLate(issue, t) == no_of_days_issue_created(issue, t) > RetentionPeriod
RemediationDue(issue, t) == no_of_days_issue_created(issue, t) >= RetentionPeriod

\* Lines 83 and 119: the branches of the loop whose exceptions the loop
\* itself catches; an exception of another branch leaves
\* clean_iam_access_keys and is caught at lines 145-149 (first a faulty
\* variant without the try of line 83).
CaughtNowhere(branch) == FALSE
CaughtInLoop(branch) == branch = "remediate"

\* How the warning branch (lines 68-80) may end: every call returns, or
\* slack.report_issue, jira.update_issue or set_status_notified raises.
WarnOutcomes == {"sent", "slack_error", "jira_error", "store_error"}

\* The warning outcomes in which slack.report_issue sent the message.
WarnDispatched == WarnOutcomes \ {"slack_error"}

\* How the remediation branch (lines 83-121) may end: the user declines
\* (without --batch), the session is None, confirm() or Account() raises,
\* disable_access_key returns or raises and the rest goes through, or
\* disable_access_key returns or raises and a later call raises.
RemediateOutcomes(batch) ==
    {"no_session", "pre_error", "remediated", "failed", "post_error_ok", "post_error_failed"}
        \cup (IF batch THEN {} ELSE {"declined"})

\* The outcomes in which disable_access_key was called, and those in which
\* it raised (lines 97 and 101-106).
ExecutorInvoked == {"remediated", "failed", "post_error_ok", "post_error_failed"}
ExecutorRaised == {"failed", "post_error_failed"}

\* Line 118: the outcomes after which set_status_remediated runs.
MarkedRemediated == {"remediated", "failed"}

\* The outcomes of the remediation branch that are an exception at line 119.
RemediateRaised == {"pre_error", "post_error_ok", "post_error_failed"}

Orders(S) ==
    {q \in [1..Cardinality(S) -> S] : \A i, j \in 1..Cardinality(S) : i # j => q[i] # q[j]}

\* ------------------------------------------- the remediation pass's steps

\* The pass: where it is, whether it runs with --batch, the issues it read,
\* those it has still to process, whether a remediation of it raised and
\* whether an exception ended it.
NoPass == [pc |-> "idle", batch |-> FALSE, issues |-> {}, todo |-> <<>>,
           raised |-> FALSE, aborted |-> FALSE]

\* What the loop did for an issue: the branch it took, how the branch ended
\* and the item as it was before.
Event(key, branch, outcome, before, prev) ==
    [key |-> key, branch |-> branch, outcome |-> outcome, before |-> before, prev |-> prev]
NoWarn == [at |-> NoDate, recorded |-> FALSE]
NoEvent == Event("None", "none", "none", NoKeyIssue, NoWarn)

\* The scanner does not run.
IdleScan ==
    /\ ddb_table = [n \in TaskNames |-> NoIssue]
    /\ whitelist = {}
    /\ trigger = Unparsable
    /\ sns = {}
    /\ inv = [i \in Slots |-> Idle]
    /\ scanned = [r \in Regions |-> 0]
    /\ published = 0
    /\ failed = FALSE
    /\ last = NoScan
    /\ invocations = 0
    /\ env = NoEnvironment

InitClean ==
    /\ iam_table \in [Keys -> IAMItems]
    /\ config \in [remediation_warning_days : SUBSET (0..1),
                   whitelist : SUBSET {"k1", "u2"}]
    /\ now = 0
    /\ pass = NoPass
    /\ ev = NoEvent
    /\ lastWarn = [k \in Keys |-> NoWarn]
    /\ IdleScan

\* Lines 26-39: a pass starts at time t: the open issues of the account are
\* read, in some order.
StartPass(t, batch, order) ==
    /\ pass.pc = "idle"
    /\ t \in now..MaxTick
    /\ order \in Orders(get_account_open_issues(iam_table))
    /\ now' = t
    /\ pass' = [pc |-> "loop", batch |-> batch, issues |-> Range(order), todo |-> order,
                raised |-> FALSE, aborted |-> FALSE]
    /\ ev' = NoEvent
    /\ UNCHANGED <<iam_table, config, lastWarn, scanVars>>

\* The issue the loop is at.
Current == Head(pass.todo)

\* The loop goes on with the next issue.
Continue(branch, outcome) ==
    /\ pass' = [pass EXCEPT !.todo = Tail(@),
                            !.raised = @ \/ (branch = "remediate" /\ outcome \in RemediateRaised \cup ExecutorRaised)]
    /\ ev' = Event(Current, branch, outcome, iam_table[Current], lastWarn[Current])

\* An exception leaves the loop and clean_iam_access_keys (lines 145-149).
Abort(branch, outcome) ==
    /\ pass' = [pass EXCEPT !.pc = "idle", !.aborted = TRUE]
    /\ ev' = Event(Current, branch, outcome, iam_table[Current], lastWarn[Current])

\* An exception in `branch`.
Raise(branch, outcome) ==
    IF CaughtInLoop(branch) THEN Continue(branch, outcome) ELSE Abort(branch, outcome)

Looping == pass.pc = "loop" /\ pass.todo # <<>>

\* Lines 47-57 hold for the current issue: it is not skipped.
Eligible(cfg, issue, key) ==
    /\ ~InWhitelist(cfg, key)
    /\ issue.reported
    /\ ~issue.remediated

\* Lines 47-49: the key or its user is whitelisted.
SkipWhitelisted ==
    /\ Looping
    /\ InWhitelist(config, Current)
    /\ Continue("skip_whitelist", "none")
    /\ UNCHANGED <<iam_table, config, now, lastWarn, scanVars>>

\* Lines 51-53: the issue was not reported.
SkipUnreported ==
    /\ Looping
    /\ ~InWhitelist(config, Current)
    /\ ~iam_table[Current].reported
    /\ Continue("skip_unreported", "none")
    /\ UNCHANGED <<iam_table, config, now, lastWarn, scanVars>>

\* Lines 55-57: the issue was remediated already.
SkipRemediated ==
    /\ Looping
    /\ ~InWhitelist(config, Current)
    /\ iam_table[Current].reported
    /\ iam_table[Current].remediated
    /\ Continue("skip_remediated", "none")
    /\ UNCHANGED <<iam_table, config, now, lastWarn, scanVars>>

\* Line 64: dateutil.parser.parse(None) raises TypeError, outside of every
\* try block of the loop.
ParseRaises ==
    /\ Looping
    /\ Eligible(config, iam_table[Current], Current)
    /\ iam_table[Current].slack_notified_date = NoDate
    /\ Raise("parse", "parse_error")
    /\ UNCHANGED <<iam_table, config, now, lastWarn, scanVars>>

\* Lines 65-80: the warning.
Warn(outcome) ==
    /\ Looping
    /\ Eligible(config, iam_table[Current], Current)
    /\ iam_table[Current].slack_notified_date # NoDate
    /\ WarningDue(config, iam_table[Current], now)
    /\ outcome \in WarnOutcomes
    /\ lastWarn' = IF outcome \in WarnDispatched
                   THEN [lastWarn EXCEPT ![Current] = [at |-> Date(now), recorded |-> outcome = "sent"]]
                   ELSE lastWarn
    /\ IF outcome = "sent"
       THEN /\ iam_table' = set_status_notified(iam_table, Current, now)
            /\ Continue("warn", outcome)
       ELSE /\ iam_table' = iam_table
            /\ Raise("warn", outcome)
    /\ UNCHANGED <<config, now, scanVars>>

\* Lines 82-121: the remediation.
Remediate(outcome) ==
    /\ Looping
    /\ Eligible(config, iam_table[Current], Current)
    /\ iam_table[Current].slack_notified_date # NoDate
    /\ ~WarningDue(config, iam_table[Current], now)
    /\ RemediationDue(iam_table[Current], now)
    /\ outcome \in RemediateOutcomes(pass.batch)
    /\ iam_table' = IF outcome \in MarkedRemediated
                    THEN set_status_remediated(iam_table, Current)
                    ELSE iam_table
    /\ IF outcome \in RemediateRaised
       THEN Raise("remediate", outcome)
       ELSE Continue("remediate", outcome)
    /\ UNCHANGED <<config, now, lastWarn, scanVars>>

\* Lines 122-124: neither a warning nor the remediation is due.
Wait ==
    /\ Looping
    /\ Eligible(config, iam_table[Current], Current)
    /\ iam_table[Current].slack_notified_date # NoDate
    /\ ~WarningDue(config, iam_table[Current], now)
    /\ ~RemediationDue(iam_table[Current], now)
    /\ Continue("wait", "none")
    /\ UNCHANGED <<iam_table, config, now, lastWarn, scanVars>>

\* The loop is through.
EndPass ==
    /\ pass.pc = "loop"
    /\ pass.todo = <<>>
    /\ pass' = [pass EXCEPT !.pc = "idle"]
    /\ UNCHANGED <<iam_table, config, now, ev, lastWarn, scanVars>>

NextClean ==
    \/ \E t \in 0..MaxTick, batch \in BOOLEAN, order \in UNION {[1..n -> Keys] : n \in 0..Cardinality(Keys)} :
           StartPass(t, batch, order)
    \/ SkipWhitelisted
    \/ SkipUnreported
    \/ SkipRemediated
    \/ ParseRaises
    \/ \E outcome \in WarnOutcomes : Warn(outcome)
    \/ \E outcome \in RemediateOutcomes(FALSE) : Remediate(outcome)
    \/ Wait
    \/ EndPass

SpecClean == InitClean /\ [][NextClean]_vars

\* ------------------------------------------------- the scanner's claims

\* No message is in flight and no invocation runs.
ChainOver == sns = {} /\ \A i \in Slots : inv[i].pc = "idle"

Distinct(s) == \A i, j \in 1..Len(s) : i # j => s[i] # s[j]

\* The last run of lines 50-73 was a scan that went through.
Scanned == last.kind = "scan"

\* C1: a chain started with N >= 1 distinct regions in which nothing failed scans
\* no region twice, and once it is over it has scanned every region of the
\* trigger exactly once (and no other region) and has published N - 1
\* continuation messages, none after the last region.
C1_ExhaustiveRegionCoverage ==
    (trigger.parsable /\ trigger.regions # <<>> /\ Distinct(trigger.regions) /\ ~failed) =>
        /\ \A r \in Regions : scanned[r] <= 1
        /\ published <= Len(trigger.regions) - 1
        /\ ChainOver =>
               /\ \A r \in Regions :
                      scanned[r] = IF r \in Range(trigger.regions) THEN 1 ELSE 0
               /\ published = Len(trigger.regions) - 1

\* A chain over two distinct regions has ended without a failure.
C1_Witness ==
    /\ ChainOver /\ ~failed
    /\ Len(trigger.regions) = 2 /\ Distinct(trigger.regions)
    /\ published = 1

\* C2: after a scan of region X that went through, every issue that was
\* Open with region X before it and is not among the findings is Resolved.
C2_ResolutionCorrectness ==
    Scanned =>
        \A n \in TaskNames :
            (/\ last.before[n].status = "Open"
             /\ last.before[n].region = last.region
             /\ n \notin last.findings) => ddb_table[n].status = "Resolved"

\* A scan resolved an issue that was Open in its region, while it found
\* another task definition privileged.
C2_Witness ==
    /\ Scanned
    /\ last.findings # {}
    /\ \E n \in TaskNames \ last.findings :
           /\ last.before[n] = ECSPrivilegedAccessIssue("Open", last.region)
           /\ ddb_table[n].status = "Resolved"

\* C3: a run of lines 50-73 for region X leaves every stored issue whose
\* region is not X as it was, status and details.
C3_RegionIsolation ==
    last.kind # "none" =>
        \A n \in TaskNames :
            (last.before[n] # NoIssue /\ last.before[n].region # last.region) =>
                ddb_table[n] = last.before[n]

\* C4: after a scan that went through, the issue of every finding that is
\* in the whitelist is Whitelisted.
C4_WhitelistPrecedence ==
    Scanned =>
        \A n \in last.findings :
            in_whitelist(whitelist, n) => ddb_table[n].status = "Whitelisted"

\* A scan found a whitelisted task definition whose issue was Open.
C4_Witness ==
    /\ Scanned
    /\ \E n \in last.findings :
           /\ in_whitelist(whitelist, n)
           /\ last.before[n].status = "Open"
           /\ ddb_table[n].status = "Whitelisted"

\* C5: a scan of a region that follows a scan of the same region with the
\* same findings changes no issue's status.
C5_IdempotentRescan ==
    (Scanned /\ last.repeat) =>
        \A n \in TaskNames : ddb_table[n].status = last.before[n].status

\* The same region was scanned twice in a row with the same findings, and
\* the first of the two scans had resolved an issue and kept another.
C5_Witness ==
    /\ Scanned /\ last.repeat
    /\ last.findings # {}
    /\ \E n \in TaskNames : ddb_table[n].status = "Resolved" /\ ddb_table[n].region = last.region

\* ------------------------------------------ the remediation pass's claims

\* The loop has processed an issue in the pass that runs or ran last.
Processed == ev.branch # "none"

\* The age, in days, the issue the loop processed last had in the pass.
AgeDays == no_of_days_issue_created(ev.before, now)

\* The loop called disable_access_key for the issue it processed last.
Attempted == ev.branch = "remediate" /\ ev.outcome \in ExecutorInvoked

\* C6: for an issue younger than the retention period the pass does not
\* call disable_access_key and does not set the status Remediated, whatever
\* the warning thresholds and the last notification are.
C6_RemediationGateLower ==
    (Processed /\ AgeDays < RetentionPeriod) =>
        /\ ~Attempted
        /\ iam_table[ev.key].status # "Remediated"
        /\ iam_table[ev.key].remediated = ev.before.remediated

\* The pass processed an issue it does not skip one day before its
\* retention period is over.
C6_Witness ==
    /\ Processed
    /\ Eligible(config, ev.before, ev.key)
    /\ ev.before.slack_notified_date # NoDate
    /\ AgeDays = RetentionPeriod - 1
    /\ ev.branch \in {"warn", "wait"}

\* The loop has processed an issue that it does not skip and whose age is
\* the retention period, with --batch, a session to be had and the issue's
\* last notification timestamp set.
ProcessedAtRetention ==
    /\ Processed
    /\ Eligible(config, ev.before, ev.key)
    /\ AgeDays = RetentionPeriod
    /\ pass.batch
    /\ ev.outcome \notin {"no_session", "pre_error"}
    /\ ev.before.slack_notified_date # NoDate

C8_RemediationFailureKeepsStatus ==
    (ev.branch = "remediate" /\ ev.outcome \in ExecutorRaised) =>
        /\ iam_table[ev.key].status = ev.before.status
        /\ iam_table[ev.key].remediated = ev.before.remediated

C10_RemediationFailureIsolation ==
    /\ ev.branch = "remediate" => ~pass.aborted
    /\ pass.aborted => ev.branch \in {"parse", "warn"}
    /\ (pass.pc = "idle" /\ ~pass.aborted) => pass.todo = <<>>

\* The remediation of an issue raised, and the pass went on, remediated the
\* next issue and ended.
C10_Witness ==
    /\ pass.pc = "idle" /\ ~pass.aborted
    /\ pass.raised
    /\ ev.branch = "remediate" /\ ev.outcome = "remediated"
    /\ \E k \in pass.issues \ {ev.key} : ~iam_table[k].remediated /\ Eligible(config, iam_table[k], k)

\* C11: an exception raised while a notification is dispatched for an issue
\* (the warning's chat message or ticket comment, or the notification of the
\* remediation's result) does not keep the pass from processing the issues
\* that follow it in the batch.
NotificationRaised ==
    \/ ev.branch = "warn" /\ ev.outcome \in {"slack_error", "jira_error"}
    \/ ev.branch = "remediate" /\ ev.outcome \in {"post_error_ok", "post_error_failed"}
C11_NotificationFailureIsolation ==
    NotificationRaised => ~(pass.aborted /\ Len(pass.todo) > 1)

\* C14: for an issue whose key or user is whitelisted, that was not
\* reported or that is remediated already, the pass sends no warning,
\* calls no remediation and writes nothing: the loop skips it.
Skippable ==
    \/ in_whitelist(config.whitelist, ev.key)
    \/ in_whitelist(config.whitelist, username(ev.key))
    \/ ~ev.before.reported
    \/ ev.before.remediated
C14_SchedulerSkipConditions ==
    (Processed /\ Skippable) =>
        /\ ev.branch \in {"skip_whitelist", "skip_unreported", "skip_remediated"}
        /\ iam_table[ev.key] = ev.before
        /\ lastWarn[ev.key] = ev.prev

\* The pass skipped an issue whose user, not whose key, is whitelisted and
\* whose retention period is over.
C14_Witness ==
    /\ Processed
    /\ ev.branch = "skip_whitelist"
    /\ ~in_whitelist(config.whitelist, ev.key)
    /\ ev.before.reported /\ ~ev.before.remediated
    /\ ev.before.slack_notified_date # NoDate
    /\ AgeDays >= RetentionPeriod

\* --------------------------------------- the scanner's claims, continued

\* C12: a scan that detects a task definition that is not whitelisted and
\* whose stored issue is Notified or Remediated does not set the issue back
\* to Open.
C12_DetectionDoesNotRegress ==
    Scanned =>
        \A n \in last.findings :
            (/\ ~in_whitelist(whitelist, n)
             /\ last.before[n].status \in {"Notified", "Remediated"}) =>
                ddb_table[n].status # "Open"

\* The edges of the issue status state machine (section 4.1), with the
\* creation of an issue and the status that stays as it is.
AllowedEdge(from, to) ==
    \/ from = to
    \/ from = "None" /\ to \in {"Open", "Whitelisted"}
    \/ from = "Open" /\ to \in {"Whitelisted", "Notified", "Remediated", "Resolved"}
    \/ from = "Whitelisted" /\ to = "Resolved"
    \/ from = "Notified" /\ to \in {"Remediated", "Resolved"}
    \/ from = "Remediated" /\ to = "Resolved"
    \/ from = "Resolved" /\ to = "Open"

\* C13: every change of an issue's status by a run of lines 50-73 of the
\* scanner follows an edge of the state machine.
C13_StatusStateMachine ==
    last.kind # "none" =>
        \A n \in TaskNames : AllowedEdge(last.before[n].status, ddb_table[n].status)

\* C19: when check() returns false, the invocation resolves no issue: every
\* issue keeps its status.
C19_ResolvedOnlyOnSuccessfulScan ==
    last.kind = "check_false" =>
        \A n \in TaskNames : ddb_table[n].status = last.before[n].status

\* C15: when Sns.publish raises, the invocation ends as any other does, the
\* publish is not tried again, no message is in flight and no invocation
\* runs from then on, and the table is as the scan of the region left it.
PublishFails(i) ==
    /\ inv[i].pc = "publish"
    /\ ShouldPublish(inv[i].regions)
    /\ ~failed /\ failed'
C15_PublishFailureEndsChain ==
    [][/\ \A i \in Slots :
              PublishFails(i) =>
                  /\ inv'[i] = Idle
                  /\ sns' = sns
                  /\ published' = published
                  /\ ddb_table' = ddb_table
                  /\ ChainOver'
       /\ ChainOver => ChainOver']_vars

\* The chain of a trigger with two regions is over after the scan of the
\* first region wrote to the table and its publish failed.
C15_Witness ==
    /\ ChainOver
    /\ failed
    /\ Len(trigger.regions) = 2
    /\ Scanned
    /\ published = 0
    /\ ddb_table # last.before

\* C16: an invocation that returns from lines 17-39 (the message does not
\* parse, a field is missing, the regions list is empty, or the session
\* cannot be opened) writes nothing to the table and publishes nothing.
AbortsBeforeScan(m) == m \in sns /\ m \notin sns' /\ inv' = inv
C16_AbortBeforeScanNoSideEffects ==
    [][\A m \in sns :
           AbortsBeforeScan(m) =>
               /\ sns' = sns \ {m}
               /\ ddb_table' = ddb_table
               /\ published' = published
               /\ scanned' = scanned]_vars

\* The first invocation of a trigger with two regions had no session: the
\* chain is over and no region was scanned.
C16_Witness ==
    /\ ChainOver
    /\ failed
    /\ trigger.parsable /\ Len(trigger.regions) = 2
    /\ invocations = 1
    /\ last = NoScan
    /\ published = 0

\* How often a region is in a list.
Occurrences(r, s) == Cardinality({k \in 1..Len(s) : s[k] = r})

\* What is left to do: three steps for each region of a message in flight
\* and one for the message, and for an invocation the steps it has to go.
Remaining ==
    LET Slot(i) == IF inv[i].pc = "check" THEN 3 * Len(inv[i].regions) + 5
                   ELSE IF inv[i].pc = "publish" THEN 3 * Len(inv[i].regions) + 4
                   ELSE 0
        Message(m) == 3 * Len(m.regions) + 3
        RECURSIVE SumSlots(_), SumMessages(_)
        SumSlots(I) == IF I = {} THEN 0
                       ELSE LET i == CHOOSE j \in I : TRUE IN Slot(i) + SumSlots(I \ {i})
        SumMessages(M) == IF M = {} THEN 0
                          ELSE LET m == CHOOSE n \in M : TRUE IN Message(m) + SumMessages(M \ {m})
    IN  SumSlots(Slots) + SumMessages(sns)

\* The message an invocation received is the list it still has and the
\* region it popped.
Received(i) == Append(inv[i].regions, inv[i].region)

\* C20: an invocation publishes at most one message, whose regions list is
\* not empty and is the list it received without the last region; whatever
\* fails, a trigger with N >= 1 regions has at most N invocations (an
\* unparsable or empty one has one) and check() runs at most once for each
\* entry of the list; each step leaves less to do, and in the end no
\* message is in flight and no invocation runs.
C20_ChainBounded ==
    /\ invocations <= (IF ParseFails(trigger) THEN 1 ELSE Len(trigger.regions))
    /\ published <= invocations
    /\ \A r \in Regions : scanned[r] <= Occurrences(r, trigger.regions)
    /\ \A m \in sns : m # trigger => m.parsable /\ m.regions # <<>>
C20_ChainStep ==
    /\ \A i \in Slots :
           inv'[i].pc = "check" /\ inv[i].pc = "idle" =>
               \E m \in sns : m.regions = Append(inv'[i].regions, inv'[i].region)
    /\ \A m \in sns' \ sns :
           /\ sns' \ sns = {m}
           /\ published' = published + 1
           /\ \E i \in Slots :
                  /\ inv[i].pc = "publish" /\ inv'[i] = Idle
                  /\ m = Payload(inv[i].regions)
                  /\ Len(m.regions) < Len(Received(i))
                  /\ m.regions = Front(Received(i))
    /\ Remaining' < Remaining
C20_ChainTerminates ==
    /\ []C20_ChainBounded
    /\ [][C20_ChainStep]_vars
    /\ <>[]ChainOver

\* A chain over two regions went through: two invocations, one message
\* published, each region scanned once.
C20_Witness ==
    /\ ChainOver
    /\ ~failed
    /\ Len(trigger.regions) = 2 /\ Distinct(trigger.regions)
    /\ invocations = 2
    /\ published = 1
    /\ \A r \in Regions : scanned[r] = 1

\* ------------------------------------------ the claims on duplicate delivery

\* The table a chain ends with when each message is delivered once and
\* nothing fails: the regions are reconciled one after the other, last
\* region first.
RECURSIVE ExactlyOnce(_, _)
ExactlyOnce(table, regions) ==
    IF regions = <<>> THEN table
    ELSE LET p == PopRegion(regions)
             findings == env.findings[p.region]
             open_issues == OpenIssuesOfRegion(table, p.region)
         IN  ExactlyOnce(ResolveAll(UpdateDetected(table, whitelist, p.region, findings),
                                    LeftOpen(open_issues, findings)),
                         p.rest)

\* C17: with the findings of each region and the whitelist fixed, a chain
\* whose messages are delivered more than once, in any interleaving, ends
\* with the table that the chain with each message delivered once ends with.
C17_DuplicateDeliverySafe ==
    (ChainOver /\ ~failed) => ddb_table = ExactlyOnce(env.initial, trigger.regions)

\* A trigger of two regions was delivered twice: four invocations ran, the
\* chains are over and the table is not the one they started from.
C17_Witness ==
    /\ ChainOver /\ ~failed
    /\ env.duplicated
    /\ Len(trigger.regions) = 2
    /\ invocations = 4
    /\ ddb_table # env.initial

\* The messages in flight and the invocations that run.
Active == Cardinality(sns) + Cardinality({i \in Slots : inv[i].pc # "idle"})

\* C18 as stated: in every state one message is in flight or one invocation
\* runs, never more.
C18_SequentialScans == Active <= 1

\* C18, amended: as long as no message was delivered a second time, one
\* message is in flight or one invocation runs, never more; the message
\* of the next region is in flight only when the invocation that
\* published it has ended.
C18_SequentialScansUnlessDuplicate == ~env.duplicated => Active <= 1

\* The second invocation of a chain whose messages were delivered once
\* each reconciled its region and no message is in flight.
C18_Witness ==
    /\ ~env.duplicated
    /\ published = 1
    /\ invocations = 2
    /\ \E i \in Slots : inv[i].pc = "publish"
    /\ sns = {}

====
